---- MODULE Spec2Model ----
(***************************************************************************)
(* Model of comment_removal/utils/mutils.py: the file-presence cache of    *)
(* encode_or_load_data (with encode_text and load_encoded_inputs) and the  *)
(* classifier pipeline make_classifier_and_predict / save_model /          *)
(* eval_model / save_predictions.                                          *)
(*                                                                         *)
(* Spec    : repeated runs of encode_or_load_data over one workdir.        *)
(* SpecClf : repeated runs of make_classifier_and_predict and              *)
(*           save_predictions over one workdir.                            *)
(***************************************************************************)
EXTENDS Integers, Sequences, FiniteSets, TLC

VARIABLES
    pc,                       \* position inside encode_or_load_data
    encoder_type,             \* args.encoder_type of the current call
    fs,                       \* workdir: cache path -> matrix or NoFile
    rows,                     \* data_loader: number of samples per set
    encoded_training_inputs,  \* local of encode_or_load_data
    encoded_test_inputs,      \* local of encode_or_load_data
    ret,                      \* what the last call returned (or NoReturn)
    fs0,                      \* history: fs when the current call started
    invoked,                  \* history: sets encode_text was called for
    saved,                    \* history: sets np.save was called for
    failed,                   \* history: sets whose encode_text raised
    loadError,                \* history: np.load raised in this call
    encoded,                  \* history: path -> last successful encoding
    last,                     \* history: encoder_type -> previous call
    fn,                       \* the function the classifier run called
    cpc,                      \* position inside make_classifier_and_predict
    clf_name,                 \* argument clf_name
    clf_type,                 \* args.clf_type
    x_train,                  \* train_set[0]
    x_test,                   \* test_set[0]
    clf,                      \* local clf: the classifier or Unbound
    y_pred,                   \* predictions handed to save_predictions
    test_file,                \* rows of args.test_file
    models,                   \* workdir: model path -> pickled classifier
    predictions_file,         \* args.predictions_file: contents or NoTable
    steps,                    \* history: library calls made by this call
    written                   \* history: files written by this call

cacheVars == <<pc, encoder_type, fs, rows, encoded_training_inputs,
               encoded_test_inputs, ret, fs0, invoked, saved, failed,
               loadError, encoded, last>>

clfVars == <<fn, cpc, clf_name, clf_type, x_train, x_test, clf, y_pred,
             test_file, models, predictions_file, steps, written>>

vars == <<cacheVars, clfVars>>

----------------------------------------------------------------------------
(* Bounds *)

\* largest number of samples in a set
MaxRows == 1
\* number of distinct matrices an encoder can produce for one set
MaxVersion == 2

----------------------------------------------------------------------------
(* Values *)

Sets == {"training", "test"}

\* args.encoder_type: the two names encode_text knows, and any other string
EncoderTypes == {"LASER", "LSI", "other"}

\* no file at a path
NoFile == [kind |-> "nofile", rows |-> 0, id |-> 0]
\* an exception leaving a call
Raise == [kind |-> "raise", rows |-> 0, id |-> 0]
\* Python's None, where a pair was expected
None == <<>>
\* the call has not returned
NoReturn == <<>>

\* the placeholder `[]` of lines 141-142: a list, zero rows, no .shape
Placeholder == [kind |-> "list", rows |-> 0, id |-> 0]

\* an ndarray of n rows (N x width); id tells different contents apart
Matrix(n, v) == [kind |-> "ndarray", rows |-> n, id |-> v]

Matrices == {Matrix(n, v) : n \in 0..MaxRows, v \in 1..MaxVersion}

\* np.array(data_loader.get('REMOVED', set=s)): one label per sample
Labels(s) == [kind |-> "ndarray", rows |-> rows[s], id |-> 0]

\* len(x) / x.shape[0]
NumRows(x) == x.rows

\* "{}_{}-comments.npy".format(s, args.encoder_type) under args.workdir
tinp_file(s, enc) == <<s, enc>>

Paths == {tinp_file(s, e) : s \in Sets, e \in EncoderTypes}

encoded_train_inputs_path == tinp_file("training", encoder_type)
encoded_test_inputs_path == tinp_file("test", encoder_type)

\* os.path.exists
PathExists(p) == fs[p] # NoFile

----------------------------------------------------------------------------
(* encode_text *)

\* What encode_text(args, comments) can do for n comments: the two known
\* encoders return an (n x width) matrix or raise; for any other
\* encoder_type encoded_comments is unbound at line 89, the NameError is
\* caught at line 92 and raised again at line 94.
encode_text(enc, n) ==
    IF enc \in {"LASER", "LSI"}
    THEN {Raise} \cup {Matrix(n, v) : v \in 1..MaxVersion}
    ELSE {Raise}

----------------------------------------------------------------------------
(* load_encoded_inputs *)

\* np.load(path) when the read succeeds
NpLoad(p) == fs[p]

\* np.save(path, arr): the workdir after the write
NpSave(p, arr) == [fs EXCEPT ![p] = arr]

\* variant: the pair comes back in the wrong order
load_encoded_inputs_swapped(training_mat_path, test_mat_path, trainReadOk, testReadOk) ==
    IF trainReadOk /\ testReadOk
    THEN <<NpLoad(test_mat_path), NpLoad(training_mat_path)>>
    ELSE None

\* variant: each read guarded on its own, a failed read leaves the placeholder
load_encoded_inputs_partial(training_mat_path, test_mat_path, trainReadOk, testReadOk) ==
    <<IF trainReadOk THEN NpLoad(training_mat_path) ELSE Placeholder,
      IF testReadOk THEN NpLoad(test_mat_path) ELSE Placeholder>>

\* load_encoded_inputs: both reads inside one try; any exception is logged
\* and the function falls off its end, returning None.
load_encoded_inputs(training_mat_path, test_mat_path, trainReadOk, testReadOk) ==
    IF trainReadOk /\ testReadOk
    THEN <<NpLoad(training_mat_path), NpLoad(test_mat_path)>>
    ELSE None

----------------------------------------------------------------------------
(* Bound of the classifier runs *)

\* largest number of rows in the test file
MaxTest == 1

----------------------------------------------------------------------------
(* save_model, save_predictions and the classifiers *)

\* clf_name as passed by a caller: the three names of lines 46-61 and any
\* other string
ClfNames == {"randomforest", "svc", "mlp", "other"}
Supported == {"randomforest", "svc", "mlp"}

\* args.clf_type as the caller's configuration sets it
ClfTypes == {"randomforest", "svc", "mlp"}

\* the local clf before any assignment
Unbound == "Unbound"
NoModel == "NoModel"

\* variant: a final else that falls back to the default classifier
DispatchWithDefault(name) ==
    IF name = "svc" THEN "SVC"
    ELSE IF name = "mlp" THEN "MLPClassifier"
    ELSE "RandomForestClassifier"

\* lines 46-61: the if / elif chain has no else
Dispatch(name) ==
    IF name = "randomforest" THEN "RandomForestClassifier"
    ELSE IF name = "svc" THEN "SVC"
    ELSE IF name = "mlp" THEN "MLPClassifier"
    ELSE Unbound

\* clf.predict_proba(x_test) at line 243: SVC is constructed at line 54
\* without probability=True, and such an SVC raises AttributeError there
HasPredictProba(k) == k # "SVC"

\* x.shape at lines 39-42: a list has no attribute shape
HasShape(x) == x.kind = "ndarray"

\* save_model / load_model: "{}_{}.pkl".format(args.clf_save_name,
\* args.clf_type) under args.workdir; clf_save_name does not vary here
save_path(type) == <<"clf_save_name", type>>

ModelPaths == {save_path(t) : t \in ClfTypes}

\* a DataFrame; error marks an exception raised while working on it
Frame(cols, rws) == [columns |-> cols, rows |-> rws, error |-> FALSE]
IndexError == [columns |-> <<>>, rows |-> <<>>, error |-> TRUE]

\* line 193: read_csv(args.test_file)[['BODY', 'REMOVED']]
gold == Frame(<<"BODY", "REMOVED">>, test_file)

\* line 197, `pred.iloc[i]['Prediction'] = y_lbl`: iloc[i] builds a new
\* Series for row i of a frame with columns of different types, and the
\* item assignment adds the label to that Series; the frame keeps its
\* columns and values
IlocRowSetItem(df, i, col, val) == df

\* lines 196-197: positions past the last row raise IndexError
RECURSIVE AssignPredictions(_, _, _)
AssignPredictions(pred, y, i) ==
    IF i > Len(y) THEN pred
    ELSE IF i > Len(pred.rows) THEN IndexError
    ELSE AssignPredictions(IlocRowSetItem(pred, i, "Prediction", y[i]), y, i + 1)

\* lines 199-200: to_csv(sep='\t', index=True, index_label='ID'): a header
\* line and one line per row, the 0-based index first
ToCsv(df) ==
    [header |-> <<"ID">> \o df.columns,
     lines |-> [i \in 1..Len(df.rows) |->
                  <<i - 1>> \o [j \in 1..Len(df.columns) |->
                                   df.rows[i][df.columns[j]]]]]

NoTable == [header |-> <<>>, lines |-> <<>>]

\* save_predictions(args, y_pred): whether it raised, and the file it wrote
save_predictions(y) ==
    LET pred == AssignPredictions(gold, y, 1)
    IN  [error |-> pred.error,
         file |-> IF pred.error THEN NoTable ELSE ToCsv(pred)]

\* the files test_file can be: BODY is the row's text, REMOVED its label
TestFiles ==
    UNION {[1..n -> [BODY : {"text"}, REMOVED : {0, 1}]] : n \in 0..MaxTest}

\* the arrays a test set of n rows can be predicted as
Predictions(n) == [1..n -> {0, 1}]

----------------------------------------------------------------------------
(* encode_or_load_data *)

\* variant: the inner existence test is dropped
NeedsEncodingAlways(p) == TRUE

\* line 147 / line 161: `if not os.path.exists(path)` inside the outer branch
NeedsEncoding(p) == ~PathExists(p)

\* lines 143-144: the outer test, for a call with encoder type enc
AnyMissing(enc) ==
    \/ fs[tinp_file("training", enc)] = NoFile
    \/ fs[tinp_file("test", enc)] = NoFile

\* variant: np.save in a finally clause, writing whatever the local holds
SaveAlways(p, r) == NpSave(p, IF r = Raise THEN Placeholder ELSE r)

\* try / except / else of lines 149-159 and 163-172: np.save runs in the
\* else clause only, so a raising encoder leaves the workdir as it was
SaveIfEncoded(p, r) == IF r = Raise THEN fs ELSE NpSave(p, r)

\* variant: the except clause raises again
OnEncodeErrorReraise(next) == "raised"

\* the except clauses of lines 155-157 and 168-170 log and fall through:
\* control continues at the statement after the try
OnEncodeError(next) == next

\* history: no earlier call with this encoder type
NoCall == [clean |-> FALSE, ret |-> NoReturn]

\* history: what the call that is now ending did
Summary ==
    [clean |-> /\ pc = "returned"
               /\ \A s \in Sets : fs0[tinp_file(s, encoder_type)] = NoFile
               /\ invoked = Sets
               /\ failed = {},
     ret |-> ret]

\* no classifier run has started
ClfIdle ==
    /\ fn = "none"
    /\ cpc = "idle"
    /\ clf_name = "randomforest"
    /\ clf_type = "randomforest"
    /\ x_train = Placeholder
    /\ x_test = Placeholder
    /\ clf = Unbound
    /\ y_pred = <<>>
    /\ models = [p \in ModelPaths |-> NoModel]
    /\ predictions_file = NoTable
    /\ steps = <<>>
    /\ written = {}

\* no encode_or_load_data call has started, the workdir holds no cache
CacheIdle ==
    /\ pc = "idle"
    /\ encoder_type = "LASER"
    /\ fs = [p \in Paths |-> NoFile]
    /\ encoded_training_inputs = Placeholder
    /\ encoded_test_inputs = Placeholder
    /\ ret = NoReturn
    /\ fs0 = fs
    /\ invoked = {}
    /\ saved = {}
    /\ failed = {}
    /\ loadError = FALSE
    /\ encoded = [p \in Paths |-> NoFile]
    /\ last = [e \in EncoderTypes |-> NoCall]

Init ==
    /\ CacheIdle
    /\ rows \in [Sets -> 0..MaxRows]
    /\ ClfIdle
    /\ test_file = <<>>

\* lines 132-144: entry of encode_or_load_data(args, data_loader)
Call(enc) ==
    /\ pc \in {"idle", "returned", "raised"}
    /\ encoder_type' = enc
    /\ encoded_test_inputs' = Placeholder
    /\ encoded_training_inputs' = Placeholder
    /\ pc' = IF AnyMissing(enc) THEN "train" ELSE "load"
    /\ ret' = NoReturn
    /\ fs0' = fs
    /\ invoked' = {}
    /\ saved' = {}
    /\ failed' = {}
    /\ loadError' = FALSE
    /\ last' = IF pc = "idle" THEN last
               ELSE [last EXCEPT ![encoder_type] = Summary]
    /\ UNCHANGED clfVars
    /\ UNCHANGED <<fs, rows, encoded>>

\* lines 147-159
EncodeTrain ==
    /\ pc = "train"
    /\ NeedsEncoding(encoded_train_inputs_path)
    /\ \E r \in encode_text(encoder_type, rows["training"]) :
        /\ invoked' = invoked \cup {"training"}
        /\ fs' = SaveIfEncoded(encoded_train_inputs_path, r)
        /\ IF r = Raise
           THEN /\ failed' = failed \cup {"training"}
                /\ pc' = OnEncodeError("test")
                /\ UNCHANGED <<encoded_training_inputs, saved, encoded>>
           ELSE /\ encoded_training_inputs' = r
                /\ saved' = saved \cup {"training"}
                /\ encoded' = [encoded EXCEPT ![encoded_train_inputs_path] = r]
                /\ pc' = "test"
                /\ UNCHANGED failed
    /\ UNCHANGED clfVars
    /\ UNCHANGED <<encoder_type, rows, encoded_test_inputs, ret, fs0,
                   loadError, last>>

\* line 147 false: the train cache exists, nothing is encoded or loaded
SkipTrain ==
    /\ pc = "train"
    /\ ~NeedsEncoding(encoded_train_inputs_path)
    /\ pc' = "test"
    /\ UNCHANGED clfVars
    /\ UNCHANGED <<encoder_type, fs, rows, encoded_training_inputs,
                   encoded_test_inputs, ret, fs0, invoked, saved, failed,
                   loadError, encoded, last>>

\* lines 161-172
EncodeTest ==
    /\ pc = "test"
    /\ NeedsEncoding(encoded_test_inputs_path)
    /\ \E r \in encode_text(encoder_type, rows["test"]) :
        /\ invoked' = invoked \cup {"test"}
        /\ fs' = SaveIfEncoded(encoded_test_inputs_path, r)
        /\ IF r = Raise
           THEN /\ failed' = failed \cup {"test"}
                /\ pc' = OnEncodeError("outputs")
                /\ UNCHANGED <<encoded_test_inputs, saved, encoded>>
           ELSE /\ encoded_test_inputs' = r
                /\ saved' = saved \cup {"test"}
                /\ encoded' = [encoded EXCEPT ![encoded_test_inputs_path] = r]
                /\ pc' = "outputs"
                /\ UNCHANGED failed
    /\ UNCHANGED clfVars
    /\ UNCHANGED <<encoder_type, rows, encoded_training_inputs, ret, fs0,
                   loadError, last>>

\* line 161 false: the test cache exists, nothing is encoded or loaded
SkipTest ==
    /\ pc = "test"
    /\ ~NeedsEncoding(encoded_test_inputs_path)
    /\ pc' = "outputs"
    /\ UNCHANGED clfVars
    /\ UNCHANGED <<encoder_type, fs, rows, encoded_training_inputs,
                   encoded_test_inputs, ret, fs0, invoked, saved, failed,
                   loadError, encoded, last>>

\* lines 174-178: both caches exist; unpacking None raises TypeError
Load ==
    /\ pc = "load"
    /\ \E trainReadOk \in BOOLEAN, testReadOk \in BOOLEAN :
        LET r == load_encoded_inputs(encoded_train_inputs_path,
                                     encoded_test_inputs_path,
                                     trainReadOk, testReadOk)
        IN  /\ loadError' = ~(trainReadOk /\ testReadOk)
            /\ IF r = None
               THEN /\ pc' = "raised"
                    /\ UNCHANGED <<encoded_training_inputs, encoded_test_inputs>>
               ELSE /\ encoded_training_inputs' = r[1]
                    /\ encoded_test_inputs' = r[2]
                    /\ pc' = "outputs"
    /\ UNCHANGED clfVars
    /\ UNCHANGED <<encoder_type, fs, rows, ret, fs0, invoked, saved, failed,
                   encoded, last>>

\* lines 180-187
Return ==
    /\ pc = "outputs"
    /\ ret' = <<<<encoded_training_inputs, Labels("training")>>,
                <<encoded_test_inputs, Labels("test")>>>>
    /\ pc' = "returned"
    /\ UNCHANGED clfVars
    /\ UNCHANGED <<encoder_type, fs, rows, encoded_training_inputs,
                   encoded_test_inputs, fs0, invoked, saved, failed,
                   loadError, encoded, last>>

Next ==
    \/ \E enc \in EncoderTypes : Call(enc)
    \/ EncodeTrain
    \/ SkipTrain
    \/ EncodeTest
    \/ SkipTest
    \/ Load
    \/ Return

Spec == Init /\ [][Next]_vars

----------------------------------------------------------------------------
(* make_classifier_and_predict, eval_model, save_predictions *)

InitClf ==
    /\ CacheIdle
    /\ rows = [s \in Sets |-> 0]
    /\ ClfIdle
    /\ test_file \in TestFiles

\* save_model(args, clf): joblib.dump to the path built from args.clf_type
save_model(type, c) == [models EXCEPT ![save_path(type)] = c]

\* lines 35-61: entry of make_classifier_and_predict; the debug lines read
\* x_train.shape and x_test.shape before the classifier is chosen
CallMake(name, type, xtr, xte) ==
    /\ cpc \in {"idle", "returned", "raised"}
    /\ fn' = "make_classifier_and_predict"
    /\ clf_name' = name
    /\ clf_type' = type
    /\ x_train' = xtr
    /\ x_test' = xte
    /\ IF HasShape(xtr) /\ HasShape(xte)
       THEN /\ clf' = Dispatch(name)
            /\ cpc' = "fit"
       ELSE /\ clf' = Unbound
            /\ cpc' = "raised"
    /\ y_pred' = <<>>
    /\ steps' = <<>>
    /\ written' = {}
    /\ UNCHANGED <<test_file, models, predictions_file>>
    /\ UNCHANGED cacheVars

\* line 67: clf.fit; reading an unassigned clf raises UnboundLocalError
Fit ==
    /\ cpc = "fit"
    /\ IF clf = Unbound
       THEN /\ cpc' = "raised"
            /\ UNCHANGED steps
       ELSE /\ steps' = Append(steps, "fit")
            /\ cpc' = "save_model"
    /\ UNCHANGED <<fn, clf_name, clf_type, x_train, x_test, clf, y_pred,
                   test_file, models, predictions_file, written>>
    /\ UNCHANGED cacheVars

\* line 68
SaveModel ==
    /\ cpc = "save_model"
    /\ models' = save_model(clf_type, clf)
    /\ steps' = Append(steps, "save_model")
    /\ written' = written \cup {"model"}
    /\ cpc' = "predict"
    /\ UNCHANGED <<fn, clf_name, clf_type, x_train, x_test, clf, y_pred,
                   test_file, predictions_file>>
    /\ UNCHANGED cacheVars

\* line 234: one predicted label per row of x_test
Predict ==
    /\ cpc = "predict"
    /\ \E y \in Predictions(NumRows(x_test)) : y_pred' = y
    /\ steps' = Append(steps, "predict")
    /\ cpc' = "score"
    /\ UNCHANGED <<fn, clf_name, clf_type, x_train, x_test, clf, test_file,
                   models, predictions_file, written>>
    /\ UNCHANGED cacheVars

\* lines 238-240
Score ==
    /\ cpc = "score"
    /\ steps' = Append(steps, "score")
    /\ cpc' = "predict_proba"
    /\ UNCHANGED <<fn, clf_name, clf_type, x_train, x_test, clf, y_pred,
                   test_file, models, predictions_file, written>>
    /\ UNCHANGED cacheVars

\* line 243
PredictProba ==
    /\ cpc = "predict_proba"
    /\ IF HasPredictProba(clf)
       THEN /\ steps' = Append(steps, "predict_proba")
            /\ cpc' = "roc_curve"
       ELSE /\ cpc' = "raised"
            /\ UNCHANGED steps
    /\ UNCHANGED <<fn, clf_name, clf_type, x_train, x_test, clf, y_pred,
                   test_file, models, predictions_file, written>>
    /\ UNCHANGED cacheVars

\* line 244
RocCurve ==
    /\ cpc = "roc_curve"
    /\ steps' = Append(steps, "roc_curve")
    /\ cpc' = "save_predictions"
    /\ UNCHANGED <<fn, clf_name, clf_type, x_train, x_test, clf, y_pred,
                   test_file, models, predictions_file, written>>
    /\ UNCHANGED cacheVars

\* line 247, then line 70
SavePredictionsStep ==
    /\ cpc = "save_predictions"
    /\ LET out == save_predictions(y_pred)
       IN  IF out.error
           THEN /\ cpc' = "raised"
                /\ UNCHANGED <<predictions_file, steps, written>>
           ELSE /\ predictions_file' = out.file
                /\ steps' = Append(steps, "save_predictions")
                /\ written' = written \cup {"predictions"}
                /\ cpc' = "returned"
    /\ UNCHANGED <<fn, clf_name, clf_type, x_train, x_test, clf, y_pred,
                   test_file, models>>
    /\ UNCHANGED cacheVars

\* lines 190-200: save_predictions(args, y_pred) called on its own
SavePredictions(y) ==
    /\ cpc \in {"idle", "returned", "raised"}
    /\ fn' = "save_predictions"
    /\ y_pred' = y
    /\ LET out == save_predictions(y)
       IN  IF out.error
           THEN /\ cpc' = "raised"
                /\ steps' = <<>>
                /\ written' = {}
                /\ UNCHANGED predictions_file
           ELSE /\ predictions_file' = out.file
                /\ steps' = <<"save_predictions">>
                /\ written' = {"predictions"}
                /\ cpc' = "returned"
    /\ UNCHANGED <<clf_name, clf_type, x_train, x_test, clf, test_file, models>>
    /\ UNCHANGED cacheVars

\* the inputs a caller passes: the encoded matrices, or the placeholder
\* encode_or_load_data can return in their place
TrainInputs == {Placeholder, Matrix(1, 1)}
TestInputs == {Placeholder, Matrix(Len(test_file), 1)}

NextClf ==
    \/ \E name \in ClfNames, type \in ClfTypes,
          xtr \in TrainInputs, xte \in TestInputs : CallMake(name, type, xtr, xte)
    \/ Fit
    \/ SaveModel
    \/ Predict
    \/ Score
    \/ PredictProba
    \/ RocCurve
    \/ SavePredictionsStep
    \/ \E n \in 0..MaxTest : \E y \in Predictions(n) : SavePredictions(y)

SpecClf == InitClf /\ [][NextClf]_vars

----------------------------------------------------------------------------
(* Properties of encode_or_load_data, checked under Spec *)

StartedWith(s) == fs0[tinp_file(s, encoder_type)] # NoFile
Other(s) == IF s = "training" THEN "test" ELSE "training"
Finished == pc \in {"outputs", "returned"}
RetInputs(s) == IF s = "training" THEN ret[1][1] ELSE ret[2][1]
RetOutputs(s) == IF s = "training" THEN ret[1][2] ELSE ret[2][2]

\* C1: a set whose cache file exists when the call starts is never passed
\* to encode_text during the call, and its cache file is not rewritten.
C1_CachedSetNotReencoded ==
    \A s \in Sets :
        StartedWith(s) =>
            /\ s \notin invoked
            /\ s \notin saved
            /\ fs[tinp_file(s, encoder_type)] = fs0[tinp_file(s, encoder_type)]

\* C1 case: one set was cached at the start, the other was encoded and saved
C1_Witness ==
    /\ pc = "returned"
    /\ \E s \in Sets : StartedWith(s) /\ Other(s) \in saved

\* C2: whenever a call returns without any encoding or loading step having
\* raised, each set's returned inputs have as many rows as its labels and
\* are not the placeholder list when the set is non-empty.
C2_ShapeAgreement ==
    (pc = "returned" /\ failed = {} /\ ~loadError) =>
        \A s \in Sets :
            /\ NumRows(RetInputs(s)) = NumRows(RetOutputs(s))
            /\ NumRows(RetOutputs(s)) > 0 => RetInputs(s) # Placeholder

\* C3: a raising encode_text is not propagated: the call goes on to the
\* other set (encoding it when its cache is missing), can always continue
\* to its return, and returns the placeholder with the full label array
\* for the failed set.
C3_EncodeErrorSwallowed ==
    \A s \in failed :
        /\ pc \in {"test", "outputs", "returned"}
        /\ pc = "test" => ENABLED (EncodeTest \/ SkipTest)
        /\ pc = "outputs" => ENABLED Return
        /\ (Finished /\ ~StartedWith(Other(s))) => Other(s) \in invoked
        /\ pc = "returned" =>
            /\ RetInputs(s) = Placeholder
            /\ RetOutputs(s) = Labels(s)
            /\ NumRows(RetOutputs(s)) = rows[s]

\* C3 case: the train encoding raised, the test set was still encoded and
\* saved, and the call returned
C3_Witness ==
    /\ pc = "returned"
    /\ failed = {"training"}
    /\ "test" \in saved
    /\ rows["training"] > 0

\* C7: after a call that started with neither cache file and encoded both
\* sets, the next call with the same encoder type never invokes the
\* encoder, returns unless a read fails, and returns the matrices the
\* first call returned.
C7_CacheRoundTrip ==
    (pc # "idle" /\ last[encoder_type].clean) =>
        /\ invoked = {}
        /\ pc = "raised" => loadError
        /\ pc = "returned" =>
            /\ ret[1][1] = last[encoder_type].ret[1][1]
            /\ ret[2][1] = last[encoder_type].ret[2][1]

\* C7 case: the second call returned two different loaded matrices
C7_Witness ==
    /\ pc = "returned"
    /\ last[encoder_type].clean
    /\ ret[1][1].kind = "ndarray"
    /\ ret[1][1] # ret[2][1]

\* C8: over any sequence of runs, a cache file exists only if its set was
\* encoded successfully and holds exactly that result; a set whose encoding
\* failed has no cache file, and a set without a cache file at the start of
\* a run is passed to the encoder in that run.
C8_CacheHoldsSuccessfulEncodings ==
    /\ \A p \in Paths :
        fs[p] # NoFile => (encoded[p] \in Matrices /\ fs[p] = encoded[p])
    /\ \A s \in failed : fs[tinp_file(s, encoder_type)] = NoFile
    /\ \A s \in Sets : (Finished /\ ~StartedWith(s)) => s \in invoked

\* C8 case: a run that found the train cache missing after an earlier run
\* of the same encoder type returned the placeholder for it, and whose own
\* encoding of it failed again while a test cache exists
C8_Witness ==
    /\ pc = "returned"
    /\ "training" \in failed
    /\ last[encoder_type].ret # NoReturn
    /\ last[encoder_type].ret[1][1] = Placeholder
    /\ fs[tinp_file("test", encoder_type)] # NoFile

\* C9: when both cache files exist and a read fails, load_encoded_inputs
\* returns None and the call ends with an error at the unpacking; a call
\* that found both files returns only the two loaded matrices.
C9_LoadFailureRaises ==
    /\ loadError => (pc = "raised" /\ ret = NoReturn)
    /\ pc = "load" =>
        \A a \in BOOLEAN, b \in BOOLEAN :
            ~(a /\ b) => load_encoded_inputs(encoded_train_inputs_path,
                                             encoded_test_inputs_path, a, b) = None
    /\ (pc = "returned" /\ \A s \in Sets : StartedWith(s)) =>
        /\ ret[1][1] = fs[encoded_train_inputs_path]
        /\ ret[2][1] = fs[encoded_test_inputs_path]

\* C9 case: both files existed, a read failed and the call raised
C9_Witness ==
    /\ pc = "raised"
    /\ loadError
    /\ \A s \in Sets : StartedWith(s)

----------------------------------------------------------------------------
(* Properties of the classifier run, checked under SpecClf *)

\* the clf_name that constructs a classifier of class k
NameOf(k) ==
    IF k = "RandomForestClassifier" THEN "randomforest"
    ELSE IF k = "SVC" THEN "svc"
    ELSE IF k = "MLPClassifier" THEN "mlp"
    ELSE "none"

InMake == fn = "make_classifier_and_predict"
ShapesOk == HasShape(x_train) /\ HasShape(x_test)

FullSteps == <<"fit", "save_model", "predict", "score", "predict_proba",
               "roc_curve", "save_predictions">>

IsPrefix(a, b) == Len(a) <= Len(b) /\ \A i \in 1..Len(a) : a[i] = b[i]

Column(f, name) == {j \in 1..Len(f.header) : f.header[j] = name}

\* C4: after save_predictions with one label per row of the test file, the
\* written file has, for every test row i, y_pred[i] in a Prediction column
\* next to the row's BODY and REMOVED values.
C4_PredictionsPersisted ==
    ("predictions" \in written /\ Len(y_pred) = Len(test_file)) =>
        /\ Len(predictions_file.lines) = Len(test_file)
        /\ \A i \in 1..Len(test_file) :
            /\ \E j \in Column(predictions_file, "Prediction") :
                predictions_file.lines[i][j] = y_pred[i]
            /\ \E j \in Column(predictions_file, "BODY") :
                predictions_file.lines[i][j] = test_file[i].BODY
            /\ \E j \in Column(predictions_file, "REMOVED") :
                predictions_file.lines[i][j] = test_file[i].REMOVED

\* C5: for each of randomforest, svc and mlp (given matrices as inputs) the
\* call makes its library calls in the order fit, save model, predict,
\* score, class probabilities, ROC, save predictions, reaches every one of
\* them and returns; the model file is written before evaluation starts.
C5_PipelineRunsInOrder ==
    (InMake /\ clf_name \in Supported /\ ShapesOk) =>
        /\ cpc # "raised"
        /\ IsPrefix(steps, FullSteps)
        /\ cpc = "returned" => steps = FullSteps
        /\ cpc \in {"predict", "score", "predict_proba", "roc_curve",
                    "save_predictions", "returned"}
             => models[save_path(clf_type)] = clf

\* C6: randomforest, svc and mlp construct a random forest, an SVM and a
\* neural network; for any other clf_name nothing is constructed and the
\* call ends in an error at the fit, with no library call made and neither
\* a model file nor a predictions file written.
C6_DispatchByName ==
    InMake =>
        /\ (ShapesOk /\ clf_name = "randomforest") => clf = "RandomForestClassifier"
        /\ (ShapesOk /\ clf_name = "svc") => clf = "SVC"
        /\ (ShapesOk /\ clf_name = "mlp") => clf = "MLPClassifier"
        /\ clf_name \notin Supported =>
            /\ clf = Unbound
            /\ cpc \in {"fit", "raised"}
            /\ steps = <<>>
            /\ written = {}

\* C6 case: a call with another name, given matrices, has raised while an
\* earlier call with a supported name left its model file
C6_Witness ==
    /\ InMake
    /\ ShapesOk
    /\ clf_name = "other"
    /\ cpc = "raised"
    /\ \E p \in ModelPaths : models[p] # NoModel

\* C10: the model file "<clf_save_name>_<kind>.pkl" holds the classifier
\* that clf_name = <kind> selects, for every clf_name and args.clf_type.
C10_ModelFileNamedAfterClassifier ==
    /\ \A t \in ClfTypes :
        models[save_path(t)] # NoModel => NameOf(models[save_path(t)]) = t
    /\ (InMake /\ "model" \in written) => clf_type = clf_name

====
